---- MODULE Spec2Model ----
(***************************************************************************)
(* The command/response engine of src/instrument_protocol.py              *)
(* (CommandResponseInstrumentProtocol): the arrival callback _got_data,   *)
(* the _wakeup handshake, _get_response, _do_cmd_resp and                 *)
(* _do_cmd_no_resp.                                                       *)
(*                                                                         *)
(* Text is a sequence of one-character strings.  Time is counted in ticks *)
(* of 0.1 s, relative to the last "starttime = time.time()" the caller    *)
(* executed, which is the only way the code uses the clock.  A sleep      *)
(* lasts exactly its argument and the other statements take no time,      *)
(* except that a polling pass that sleeps nowhere still lets the clock    *)
(* advance (SpinTick).                                                    *)
(*                                                                         *)
(* The caller runs on one thread, the transport's arrival callback on     *)
(* another: the statements of the two interleave.  Neither buffer is      *)
(* guarded by a lock, and "self._linebuf += data" is a read of the        *)
(* attribute, a concatenation and a write of the attribute, between which *)
(* the interpreter may switch threads; so each append of _got_data is two *)
(* steps, the read and the write, and the caller's statements may fall    *)
(* between them.                                                          *)
(*                                                                         *)
(* Three further specifications share the module: LifeSpec, the           *)
(* connection lifecycle of InstrumentProtocol; DictSpec, the parameter    *)
(* dictionary; SharedSpec, two caller threads on one engine.  Each keeps  *)
(* the variables of the others at their initial values.                   *)
(***************************************************************************)
EXTENDS Integers, Sequences, FiniteSets, TLC

(***************************************************************************)
(* Bounds of the model.                                                    *)
(***************************************************************************)
\* the integers given to the formatter are -MaxInt..MaxInt
MaxInt == 120
\* the transport delivers a chunk only if neither buffer grows beyond this many bytes
MaxBuf == 2
\* the largest timeout a caller passes, in ticks
MaxTimeout == 10

(***************************************************************************)
(* Program constants.                                                      *)
(***************************************************************************)
\* time.sleep(1) in _wakeup, in ticks
WakeupSleep == 10
\* time.sleep(.1) in _get_response, in ticks
ResponseSleep == 1

(***************************************************************************)
(* Inputs.                                                                 *)
(***************************************************************************)
\* what one call of the arrival callback delivers
Chunks == {<<"-">>, <<">">>, <<"-", ">">>}
P1 == <<">">>
P2 == <<"-", ">">>
\* the prompt lists an engine is constructed with (self.prompts.list())
PromptConfigs == {<<>>, <<P1>>, <<P2, P1>>}
\* expected_prompt=None
NoPrompt == <<"None">>
ExpectedPrompts == {NoPrompt, P2}
Timeouts == {0, MaxTimeout}
Cmds == {"get", "set", "bogus"}
\* the entry points: _do_cmd_resp, _do_cmd_no_resp, and _wakeup and _get_response
\* called on their own
Kinds == {"resp", "no_resp", "wakeup", "get_response"}
\* newline
eoln == <<"\n">>

\* self._build_handlers, as the subclass constructor fills it
BuildHandlers == {"get", "set"}
\* self._response_handlers
ResponseHandlers == {"get"}

(***************************************************************************)
(* Values.                                                                 *)
(***************************************************************************)
BAD_DRIVER_COMMAND == "InstrumentProtocolException(BAD_DRIVER_COMMAND)"
TIMEOUT == "InstrumentTimeoutException"
NoError == "no error"
\* Python's None as a call's result, and InstErrorCode.OK
NoneResult == [by |-> "None", response |-> <<>>, prompt |-> <<>>]
OkResult == [by |-> "InstErrorCode.OK", response |-> <<>>, prompt |-> <<>>]
\* what _wakeup returns: the item
WakeupResult(item) == [by |-> "_wakeup", response |-> <<>>, prompt |-> item]
\* what _get_response returns: (item, self._linebuf)
ResponseResult(text, item) == [by |-> "_get_response", response |-> text, prompt |-> item]
Pending == [status |-> "pending", err |-> NoError, result |-> NoneResult]
Raised(e) == [status |-> "raised", err |-> e, result |-> NoneResult]
Returned(r) == [status |-> "returned", err |-> NoError, result |-> r]
GotDataIdle == [at |-> "idle", tmp |-> <<>>]
\* the history of the arrivals at the start of a call, kept (on) or not
Watching(on) == [on |-> on, chunks |-> 0, pieces |-> 0, answered |-> FALSE]
\* an instrument that may send any chunk at any time
AnyDevice == [scripted |-> FALSE, stream |-> <<>>, pending |-> <<>>, sent |-> FALSE, clean |-> FALSE]
\* an instrument that may send any chunk until a command line reaches it, and that
\* sends stream, and nothing else, in reply to the first command line
Scripted(stream) == [scripted |-> TRUE, stream |-> stream, pending |-> <<>>, sent |-> FALSE, clean |-> FALSE]
\* the chunks the transport may deliver next
Offer(dev) ==
    IF dev.scripted /\ dev.sent
    THEN {SubSeq(dev.pending, 1, n) : n \in 1..Len(dev.pending)}
    ELSE Chunks
\* the instrument once the transport has delivered data
Deliver(dev, data) ==
    IF dev.scripted /\ dev.sent
    THEN [dev EXCEPT !.pending = SubSeq(dev.pending, Len(data) + 1, Len(dev.pending))]
    ELSE dev
\* the instrument once a command line has reached it; clean: nothing of before the
\* command line was in a buffer or on its way into one
Transmit(dev, clean) ==
    IF dev.scripted /\ ~dev.sent
    THEN [dev EXCEPT !.sent = TRUE, !.pending = dev.stream, !.clean = clean]
    ELSE [dev EXCEPT !.clean = FALSE]
NoCall == [kind |-> "resp", cmd |-> "get", timeout |-> 0, expected |-> NoPrompt]

VARIABLES
    prompts,      \* self.prompts.list()
    linebuf,      \* self._linebuf
    promptbuf,    \* self._promptbuf
    cb,           \* the chunk of the arrival callback that is running
    gd,           \* where the arrival callback is, and the buffer value it has read
    pc,           \* where the caller thread is
    cur,          \* the arguments of the call in progress (or of the last call)
    idx,          \* the position of the for loop over the prompt list
    elapsed,      \* time.time() - starttime
    prompt,       \* the local variable prompt
    result,       \* the line buffer as _get_response read it for its return value
    outcome,      \* how the last call ended
    trace,        \* what the call in progress has done so far, in order
    handled,      \* the (response, prompt) pairs the response handler was invoked with
    fline,        \* the line buffer of a fresh engine that is given this call alone
    fprompt,      \* the prompt buffer of that fresh engine
    seen,         \* the prompt buffer as each test of the current pass over the prompt list saw it
    quiet,        \* _wakeup has matched, the command is not yet transmitted, and no
                  \* byte was appended in between
    residue,      \* the command is not yet transmitted, and at the moment of the call
                  \* a buffer held bytes of before the call
    device,       \* the instrument at the far end of the transport: what it sends
                  \* in reply to the first command line it is sent (stream), where
                  \* that is fixed in advance (scripted), and what of it is still
                  \* to arrive (pending)
    obs           \* history of the arrivals, kept only where obs.on: how many callbacks
                  \* have appended to the prompt buffer since the call was made (chunks,
                  \* at most three are counted) and since the caller last reset it
                  \* (pieces, at most two are counted), and whether one has since the
                  \* command was transmitted

engineVars == <<prompts, linebuf, promptbuf, cb, gd, obs, device, pc, cur, idx, elapsed, prompt, result,
                outcome, trace, handled, fline, fprompt, seen, quiet, residue>>

VARIABLES
    logger,         \* self._logger
    logger_client,  \* self._logger_client
    procs,          \* the endpoints whose transport process is running
    listeners,      \* the endpoints whose running process has a client with _got_data registered
    last,           \* the last connection call: its arguments, its outcome, what it did
    late,           \* a chunk was appended after the last disconnect returned
    ran             \* the last run_script call: its script, what it did in order, its outcome

lifeVars == <<logger, logger_client, procs, listeners, last, late, ran>>

VARIABLES
    parameters,     \* self._parameters
    order,          \* the order in which self._parameters.iteritems() yields the names
    registered,     \* the names in the order of their first _add_param_dict
    pout,           \* the last parameter dictionary call: its arguments and its outcome
    held,           \* the mapping that the last _get_config_param_dict to succeed returned,
                    \* as its caller holds it, and self._parameters as it was then
    rt              \* a value on its way through the formatter, the wire text and the
                    \* pattern of its parameter

dictVars == <<parameters, order, registered, pout, held, rt>>

VARIABLES
    callers         \* per caller thread, where it is in its _do_cmd_resp or _do_cmd_no_resp

VARIABLES
    current_state,  \* what self.get_current_state() of the PPSDN protocol returns
    gc              \* the last call of the PPSDN protocol's _got_chunk: where it is, its
                    \* chunk, its locals filling and sample_dict, the protocol state and
                    \* the two buffers as it found them, and what it did, in order

chunkVars == <<current_state, gc>>

vars == <<engineVars, lifeVars, dictVars, callers, chunkVars>>


(***************************************************************************)
(* Pure helpers.                                                           *)
(***************************************************************************)
\* mutant: the test is made on the whole of the text and not on its end
EndsWithWhole(buf, item) == buf = item

\* str.endswith: buf ends with item
EndsWith(buf, item) ==
    /\ Len(item) <= Len(buf)
    /\ SubSeq(buf, Len(buf) - Len(item) + 1, Len(buf)) = item

\* mutant: the lookup of the build handler never fails
HasBuildHandlerAlways(cmd) == TRUE

\* "if not build_handler" of _do_cmd_resp and _do_cmd_no_resp
HasBuildHandler(cmd) == cmd \in BuildHandlers

\* build_handler(cmd, *args): the wire string (_build_simple_command)
BuildHandler(cmd) == <<cmd>> \o eoln

\* "if resp_handler" of _do_cmd_resp
HasResponseHandler(cmd) == cmd \in ResponseHandlers

\* mutant: the handler is given its arguments in the other order
HandlerArgsSwapped(text, matched) == <<matched, text>>

\* the arguments _do_cmd_resp invokes the response handler with
HandlerArgs(text, matched) == <<text, matched>>

\* resp_handler(result, prompt): what the handler of cmd makes of its arguments
ResponseHandler(cmd, args) == [by |-> cmd, response |-> args[1], prompt |-> args[2]]

\* mutant: expected_prompt is ignored
PromptListAny(expected) == prompts

\* prompt_list of _get_response
PromptList(expected) == IF expected = NoPrompt THEN prompts ELSE <<expected>>

\* mutant: the prompt list is gone through from its end
WakeupItemReversed(i) == prompts[Len(prompts) + 1 - i]

\* the item the for loop of _wakeup tests at position i
WakeupItem(i) == prompts[i]

\* mutant: the wakeup allows itself one more retry interval
WakeupTimedOutLate(e, timeout) == e > timeout + WakeupSleep

\* "if time.time() > starttime + timeout" of _wakeup
WakeupTimedOut(e, timeout) == e > timeout

\* mutant: the response wait never gives up
ResponseTimedOutNever(e, timeout) == FALSE

\* "if time.time() > starttime + timeout" of _get_response
ResponseTimedOut(e, timeout) == e > timeout

\* self._linebuf = '' after the wakeup
ResetLine(buf) == <<>>

\* self._promptbuf = '' after the wakeup (in _do_cmd_resp)
ResetPrompt(buf) == <<>>

\* self._promptbuf = '' at the start of _wakeup
WakeupClear(buf) == <<>>

\* mutant: the command is transmitted before the wakeup handshake
DoCmdRespSendFirst(step) ==
    CASE step = "build" -> "send"
      [] step = "send" -> "wakeup"
      [] step = "wakeup" -> "clear_line"
      [] step = "clear_line" -> "clear_prompt"
      [] step = "clear_prompt" -> "get_response"
      [] step = "get_response" -> "return_response"
      [] step = "return_response" -> "handler"

\* mutant: the command is transmitted again after it was transmitted
DoCmdRespResend(step) ==
    CASE step = "build" -> "wakeup"
      [] step = "wakeup" -> "clear_line"
      [] step = "clear_line" -> "clear_prompt"
      [] step = "clear_prompt" -> "send"
      [] step = "send" -> "send"
      [] step = "get_response" -> "return_response"
      [] step = "return_response" -> "handler"

\* the statements of _do_cmd_resp in the order the function runs them
DoCmdRespNext(step) ==
    CASE step = "build" -> "wakeup"
      [] step = "wakeup" -> "clear_line"
      [] step = "clear_line" -> "clear_prompt"
      [] step = "clear_prompt" -> "send"
      [] step = "send" -> "get_response"
      [] step = "get_response" -> "return_response"
      [] step = "return_response" -> "handler"

\* the statements of _do_cmd_no_resp in the order the function runs them
DoCmdNoRespNext(step) ==
    CASE step = "build" -> "wakeup"
      [] step = "wakeup" -> "clear_line"
      [] step = "clear_line" -> "send"
      [] step = "send" -> "return"

\* what follows a step in the entry point that was called; _wakeup and
\* _get_response called on their own return when they are through
NextStep(kind, step) ==
    CASE kind = "resp" -> DoCmdRespNext(step)
      [] kind = "no_resp" -> DoCmdNoRespNext(step)
      [] kind = "wakeup" -> IF step = "build" THEN "wakeup" ELSE "return"
      [] kind = "get_response" ->
            CASE step = "build" -> "get_response"
              [] step = "get_response" -> "return_response"
              [] step = "return_response" -> "return"

(***************************************************************************)
(* Values of the connection lifecycle and of the parameter dictionary.     *)
(***************************************************************************)
\* Python's None, where a handle, a pid or a parameter value is absent
None == <<"None">>
\* Python's False
False == <<"False">>
\* InstErrorCode.OK
OK == <<"OK">>
\* InstrumentConnectionException
ConnectionError == "InstrumentConnectionException"
\* an attribute is looked up on None, or on a value that does not have it
AttributeError == "AttributeError"
\* a dictionary is indexed with a key it does not hold
KeyError == "KeyError"

\* how a connection or dictionary call ended: it returned v, it raised e, or
\* no call was made yet
Gave(v) == [status |-> "returned", err |-> NoError, value |-> v]
Failed(e) == [status |-> "raised", err |-> e, value |-> None]
NotCalled == [status |-> "pending", err |-> NoError, value |-> None]

\* the endpoints (device and server address and port) a configuration can name
Endpoints == {"e1", "e2"}
\* InterfaceType, and one value that is none of its members
ETHERNET == "ethernet"
SLOW_ETHERNET == "slow_ethernet"
SERIAL == "serial"
Methods == {ETHERNET, SLOW_ETHERNET, SERIAL, "other"}

\* the caller threads that share one engine
Threads == {1, 2}

\* no connection call was made yet
NoConnCall ==
    [op |-> "none", method |-> "none", ep |-> "none", out |-> NotCalled,
     pre |-> <<None, None>>, launched |-> 0, steps |-> <<>>,
     hadPid |-> FALSE, wasConnected |-> FALSE, wasDown |-> TRUE]

\* scripts of ScriptInstrumentProtocol, a token being <<verb, argument>>: the
\* send of control-C, a delay of 0.5 s and the send of "1"; and a script whose
\* second token has a verb the language does not have
ScenarioScript == << <<"S", "^C">>, <<"D", "0.5">>, <<"S", "1">> >>
BadVerbScript == << <<"S", "1">>, <<"W", "1">>, <<"S", "0">> >>
Scripts == {ScenarioScript, BadVerbScript, << <<"S", "1">> >>, <<>>}
\* InstrumentProtocolException
ProtocolError == "InstrumentProtocolException"
\* no run_script call was made yet
NoScriptCall == [script |-> <<>>, did |-> <<>>, out |-> NotCalled]

\* the names a driver registers, and a name's slot while the dictionary does
\* not hold it
Names == {"a", "b"}
Absent == [kind |-> "absent", name |-> "none", pattern |-> <<>>, value |-> None]

\* no parameter dictionary call was made yet
NoDictCall ==
    [op |-> "none", name |-> "none", arg |-> <<>>, out |-> NotCalled,
     config |-> [n \in Names |-> None],
     pre |-> [n \in Names |-> Absent]]

\* no configuration mapping was returned yet
NothingHeld ==
    [taken |-> FALSE, config |-> [n \in Names |-> None], pre |-> [n \in Names |-> Absent]]

\* a Python value given to a formatter: its type, and the number it stands for
\* (True is 1; a float, a long or a str stands for the number it is written as)
PyValue(type, n) == [type |-> type, n |-> n]
\* the values given to _int_to_string
FormatInputs ==
    {PyValue("int", n) : n \in (0 - MaxInt)..MaxInt}
        \cup {PyValue(type, n) : type \in {"bool"}, n \in {0, 1}}
        \cup {PyValue(type, n) : type \in {"float", "long", "str", "NoneType"}, n \in {0, 7}}
\* the value v before the formatter was applied to it
RoundTrip(v) == [at |-> "input", v |-> v, text |-> None, wire |-> <<>>, parsed |-> PyValue("NoneType", 0)]
\* ProtocolState of the McLane drivers, as far as _got_chunk tells them apart:
\* FILL and the others
ProtocolStates == {"UNKNOWN", "COMMAND", "FLUSH", "FILL", "CLEAR"}
\* no chunk has been handed to _got_chunk
GotChunkIdle == [at |-> "idle", chunk |-> <<>>, filling |-> FALSE, sample_dict |-> None,
                 arrived |-> "UNKNOWN", line |-> <<>>, prompt |-> <<>>, did |-> <<>>]
\* InstrumentProtocol.__init__
ProtocolInit ==
    /\ logger = None
    /\ logger_client = None
    /\ procs = {}
    /\ listeners = {}
    /\ last = NoConnCall
    /\ late = FALSE
    /\ ran = NoScriptCall

\* self._parameters = {}
ParametersInit ==
    /\ parameters = [n \in Names |-> Absent]
    /\ order = <<>>
    /\ registered = <<>>
    /\ pout = NoDictCall
    /\ held = NothingHeld

\* no caller thread is inside a command
CallersIdle == callers = [t \in Threads |-> [pc |-> "idle", kind |-> "resp"]]

(***************************************************************************)
(* The initial state: CommandResponseInstrumentProtocol.__init__           *)
(***************************************************************************)
EngineInit ==
    /\ ProtocolInit
    /\ ParametersInit
    /\ CallersIdle
    /\ prompts \in PromptConfigs
    /\ linebuf = <<>>
    /\ promptbuf = <<>>
    /\ cb = <<>>
    /\ gd = GotDataIdle
    /\ pc = "idle"
    /\ cur = NoCall
    /\ idx = 1
    /\ elapsed = 0
    /\ prompt = <<>>
    /\ result = <<>>
    /\ outcome = Pending
    /\ trace = <<>>
    /\ handled = <<>>
    /\ fline = <<>>
    /\ fprompt = <<>>
    /\ seen = <<>>
    /\ quiet = FALSE
    /\ residue = FALSE
    /\ gc = GotChunkIdle

\* no value is being formatted
Init ==
    /\ EngineInit
    /\ rt = RoundTrip(PyValue("NoneType", 0))
    /\ obs = Watching(FALSE)
    /\ device = AnyDevice
    /\ current_state = "UNKNOWN"

(***************************************************************************)
(* The arrival callback _got_data: two statements, on the transport's      *)
(* thread, each a read of the buffer and a write of it.                    *)
(***************************************************************************)
\* self._linebuf += data, its read of self._linebuf
GotDataLineRead ==
    \E data \in Offer(device) :
        /\ gd = GotDataIdle
        /\ device' = Deliver(device, data)
        /\ Len(linebuf) + Len(data) <= MaxBuf
        /\ Len(promptbuf) + Len(data) <= MaxBuf
        /\ cb' = data
        /\ gd' = [at |-> "line", tmp |-> linebuf]
        /\ UNCHANGED <<chunkVars, obs, lifeVars, dictVars, callers, result, residue, prompts, linebuf, promptbuf, pc, cur, idx, elapsed, prompt, outcome,
                       trace, handled, fline, fprompt, seen, quiet>>

\* self._linebuf += data, its write of self._linebuf
GotDataLine ==
    /\ gd.at = "line"
    /\ linebuf' = gd.tmp \o cb
    /\ fline' = fline \o cb
    /\ gd' = [at |-> "between", tmp |-> <<>>]
    /\ quiet' = FALSE
    /\ UNCHANGED <<chunkVars, obs, lifeVars, dictVars, callers, result, residue, prompts, device, promptbuf, cb, pc, cur, idx, elapsed, prompt, outcome,
                   trace, handled, fprompt, seen>>

\* self._promptbuf += data, its read of self._promptbuf
GotDataPromptRead ==
    /\ gd.at = "between"
    /\ gd' = [at |-> "prompt", tmp |-> promptbuf]
    /\ UNCHANGED <<chunkVars, obs, lifeVars, dictVars, callers, result, residue, prompts, device, linebuf, promptbuf, cb, pc, cur, idx, elapsed, prompt, outcome,
                   trace, handled, fline, fprompt, seen, quiet>>

\* self._promptbuf += data, its write of self._promptbuf
GotDataPrompt ==
    /\ gd.at = "prompt"
    /\ promptbuf' = gd.tmp \o cb
    /\ fprompt' = fprompt \o cb
    /\ cb' = <<>>
    /\ obs' = IF obs.on
              THEN [obs EXCEPT !.chunks = IF obs.chunks < 3 THEN obs.chunks + 1 ELSE 3,
                               !.pieces = IF obs.pieces < 2 THEN obs.pieces + 1 ELSE 2,
                               !.answered = TRUE]
              ELSE obs
    /\ gd' = GotDataIdle
    /\ quiet' = FALSE
    /\ UNCHANGED <<chunkVars, lifeVars, dictVars, callers, result, residue, prompts, device, linebuf, pc, cur, idx, elapsed, prompt, outcome,
                   trace, handled, fline, seen>>

(***************************************************************************)
(* The caller's thread: _do_cmd_resp and _do_cmd_no_resp, statement by     *)
(* statement, with _wakeup and _get_response inlined.                      *)
(***************************************************************************)
\* the call, the lookup of the build handler and the build of the wire string
Call ==
    \E kind \in Kinds, cmd \in Cmds, timeout \in Timeouts, expected \in ExpectedPrompts :
        /\ pc = "idle"
        /\ kind \in {"no_resp", "wakeup"} => expected = NoPrompt
        /\ kind \in {"wakeup", "get_response"} => cmd = "get"
        /\ cur' = [kind |-> kind, cmd |-> cmd, timeout |-> timeout, expected |-> expected]
        /\ IF kind \in {"wakeup", "get_response"} \/ HasBuildHandler(cmd)
           THEN /\ pc' = NextStep(kind, "build")
                /\ outcome' = Pending
           ELSE /\ pc' = "idle"
                /\ outcome' = Raised(BAD_DRIVER_COMMAND)
        /\ idx' = 1
        /\ elapsed' = 0
        /\ prompt' = <<>>
        /\ result' = <<>>
        /\ trace' = <<>>
        /\ handled' = <<>>
        /\ fline' = <<>>
        /\ fprompt' = <<>>
        /\ seen' = <<>>
        /\ quiet' = FALSE
        /\ residue' = (linebuf # <<>> \/ promptbuf # <<>>)
        /\ obs' = Watching(obs.on)
        /\ UNCHANGED <<chunkVars, gd, lifeVars, dictVars, callers, prompts, device, linebuf, promptbuf, cb>>

\* _wakeup: self._promptbuf = ''; starttime = time.time()
WakeupStart ==
    /\ pc = "wakeup"
    /\ promptbuf' = WakeupClear(promptbuf)
    /\ fprompt' = WakeupClear(fprompt)
    /\ elapsed' = 0
    /\ pc' = "wakeup_cycle"
    /\ obs' = [obs EXCEPT !.pieces = 0]
    /\ UNCHANGED <<chunkVars, gd, lifeVars, dictVars, callers, result, residue, prompts, device, linebuf, cb, cur, idx, prompt, outcome, trace, handled,
                   fline, seen, quiet>>

\* _wakeup: self._send_wakeup(); time.sleep(1)
WakeupCycle ==
    /\ pc = "wakeup_cycle"
    /\ trace' = Append(trace, "wake")
    /\ elapsed' = elapsed + WakeupSleep
    /\ idx' = 1
    /\ seen' = <<>>
    /\ pc' = "wakeup_check"
    /\ UNCHANGED <<chunkVars, gd, obs, lifeVars, dictVars, callers, result, residue, prompts, device, linebuf, promptbuf, cb, cur, prompt, outcome, handled,
                   fline, fprompt, quiet>>

\* _wakeup: one test of the for loop over self.prompts.list(); past its end, the
\* timeout test
WakeupCheck ==
    /\ pc = "wakeup_check"
    /\ IF idx <= Len(prompts)
       THEN IF EndsWith(promptbuf, WakeupItem(idx))
            THEN /\ prompt' = WakeupItem(idx)
                 /\ seen' = Append(seen, promptbuf)
                 /\ trace' = Append(trace, "wakeup_ok")
                 /\ quiet' = TRUE
                 /\ IF NextStep(cur.kind, "wakeup") = "return"
                    THEN /\ outcome' = Returned(WakeupResult(WakeupItem(idx)))
                         /\ pc' = "idle"
                    ELSE /\ pc' = NextStep(cur.kind, "wakeup")
                         /\ UNCHANGED outcome
                 /\ UNCHANGED idx
            ELSE /\ idx' = idx + 1
                 /\ seen' = Append(seen, promptbuf)
                 /\ UNCHANGED <<prompt, trace, quiet, pc, outcome>>
       ELSE IF WakeupTimedOut(elapsed, cur.timeout)
            THEN /\ outcome' = Raised(TIMEOUT)
                 /\ trace' = Append(trace, "wakeup_timeout")
                 /\ pc' = "idle"
                 /\ UNCHANGED <<idx, seen, prompt, quiet>>
            ELSE /\ pc' = "wakeup_cycle"
                 /\ UNCHANGED <<idx, seen, prompt, trace, quiet, outcome>>
    /\ UNCHANGED <<chunkVars, gd, obs, lifeVars, dictVars, callers, result, residue, prompts, device, linebuf, promptbuf, cb, cur, elapsed, handled, fline,
                   fprompt>>

\* self._linebuf = ''
ClearLine ==
    /\ pc = "clear_line"
    /\ linebuf' = ResetLine(linebuf)
    /\ fline' = ResetLine(fline)
    /\ trace' = Append(trace, "clear_line")
    /\ pc' = NextStep(cur.kind, "clear_line")
    /\ UNCHANGED <<chunkVars, gd, obs, lifeVars, dictVars, callers, result, residue, prompts, device, promptbuf, cb, cur, idx, elapsed, prompt, outcome, handled,
                   fprompt, seen, quiet>>

\* self._promptbuf = ''
ClearPrompt ==
    /\ pc = "clear_prompt"
    /\ promptbuf' = ResetPrompt(promptbuf)
    /\ fprompt' = ResetPrompt(fprompt)
    /\ trace' = Append(trace, "clear_prompt")
    /\ pc' = NextStep(cur.kind, "clear_prompt")
    /\ obs' = [obs EXCEPT !.pieces = 0]
    /\ UNCHANGED <<chunkVars, gd, lifeVars, dictVars, callers, result, residue, prompts, device, linebuf, cb, cur, idx, elapsed, prompt, outcome, handled,
                   fline, seen, quiet>>

\* self._logger_client.send(cmd_line); then _do_cmd_no_resp returns
\* InstErrorCode.OK and _do_cmd_resp enters _get_response (starttime = time.time())
Send ==
    /\ pc = "send"
    /\ trace' = Append(trace, "send")
    /\ quiet' = FALSE
    /\ residue' = FALSE
    /\ IF NextStep(cur.kind, "send") = "return"
       THEN /\ outcome' = Returned(OkResult)
            /\ pc' = "idle"
       ELSE /\ pc' = NextStep(cur.kind, "send")
            /\ UNCHANGED outcome
    /\ elapsed' = 0
    /\ idx' = 1
    /\ seen' = <<>>
    /\ obs' = [obs EXCEPT !.answered = FALSE]
    /\ device' = Transmit(device, linebuf = <<>> /\ promptbuf = <<>> /\ gd = GotDataIdle)
    /\ UNCHANGED <<chunkVars, gd, lifeVars, dictVars, callers, result, prompts, linebuf, promptbuf, cb, cur, prompt, handled, fline,
                   fprompt>>

\* _get_response: one test of the for loop over prompt_list, with its
\* time.sleep(.1) when the test fails; past the end of the list, the timeout test
GetResponsePoll ==
    /\ pc = "get_response"
    /\ LET list == PromptList(cur.expected) IN
       IF idx <= Len(list)
       THEN IF EndsWith(promptbuf, list[idx])
            THEN /\ prompt' = list[idx]
                 /\ seen' = Append(seen, promptbuf)
                 /\ trace' = Append(trace, "response_ok")
                 /\ pc' = NextStep(cur.kind, "get_response")
                 /\ UNCHANGED <<idx, elapsed, outcome>>
            ELSE /\ elapsed' = elapsed + ResponseSleep
                 /\ idx' = idx + 1
                 /\ seen' = Append(seen, promptbuf)
                 /\ UNCHANGED <<prompt, trace, pc, outcome>>
       ELSE IF ResponseTimedOut(elapsed, cur.timeout)
            THEN /\ outcome' = Raised(TIMEOUT)
                 /\ trace' = Append(trace, "response_timeout")
                 /\ pc' = "idle"
                 /\ UNCHANGED <<idx, seen, prompt, elapsed>>
            ELSE /\ idx' = 1
                 /\ seen' = <<>>
                 /\ UNCHANGED <<prompt, trace, pc, outcome, elapsed>>
    /\ UNCHANGED <<chunkVars, gd, obs, lifeVars, dictVars, callers, result, residue, prompts, device, linebuf, promptbuf, cb, cur, handled, fline, fprompt,
                   quiet>>

\* the wall clock during a pass of _get_response that sleeps nowhere (an empty
\* prompt list): the busy loop takes time
SpinTick ==
    /\ pc = "get_response"
    /\ PromptList(cur.expected) = <<>>
    /\ ~ResponseTimedOut(elapsed, cur.timeout)
    /\ elapsed' = elapsed + 1
    /\ UNCHANGED <<chunkVars, gd, obs, lifeVars, dictVars, callers, result, residue, prompts, device, linebuf, promptbuf, cb, pc, cur, idx, prompt, outcome,
                   trace, handled, fline, fprompt, seen, quiet>>

\* _get_response: return (item, self._linebuf), to the caller when it was
\* called on its own and else to _do_cmd_resp, into (prompt, result)
GetResponseReturn ==
    /\ pc = "return_response"
    /\ result' = linebuf
    /\ IF NextStep(cur.kind, "return_response") = "return"
       THEN /\ outcome' = Returned(ResponseResult(linebuf, prompt))
            /\ pc' = "idle"
       ELSE /\ pc' = NextStep(cur.kind, "return_response")
            /\ UNCHANGED outcome
    /\ UNCHANGED <<chunkVars, gd, obs, lifeVars, dictVars, callers, prompts, device, linebuf, promptbuf, cb, cur, idx, elapsed, prompt, trace,
                   handled, fline, fprompt, seen, quiet, residue>>

\* _do_cmd_resp looks the response handler up, invokes it and returns its result
Handler ==
    /\ pc = "handler"
    /\ IF HasResponseHandler(cur.cmd)
       THEN /\ handled' = Append(handled, HandlerArgs(result, prompt))
            /\ trace' = Append(trace, "handler")
            /\ outcome' = Returned(ResponseHandler(cur.cmd, HandlerArgs(result, prompt)))
       ELSE /\ outcome' = Returned(NoneResult)
            /\ UNCHANGED <<handled, trace>>
    /\ pc' = "idle"
    /\ UNCHANGED <<chunkVars, gd, obs, lifeVars, dictVars, callers, prompts, device, linebuf, promptbuf, cb, cur, idx, elapsed, prompt, result,
                   fline, fprompt, seen, quiet, residue>>

CallerStep ==
    \/ WakeupStart
    \/ WakeupCycle
    \/ WakeupCheck
    \/ ClearLine
    \/ ClearPrompt
    \/ Send
    \/ GetResponsePoll
    \/ GetResponseReturn
    \/ Handler

Next ==
    \/ Call
    \/ WakeupStart
    \/ WakeupCycle
    \/ WakeupCheck
    \/ ClearLine
    \/ ClearPrompt
    \/ Send
    \/ GetResponsePoll
    \/ SpinTick
    \/ GetResponseReturn
    \/ Handler
    \/ GotDataLineRead
    \/ GotDataLine
    \/ GotDataPromptRead
    \/ GotDataPrompt

Spec == Init /\ [][Next]_vars

\* the caller's thread keeps running, and the wall clock keeps advancing
FairSpec == Spec /\ WF_vars(CallerStep) /\ WF_vars(SpinTick)

(***************************************************************************)
(* Helpers of the properties.                                              *)
(***************************************************************************)
\* p is the end of buf (stated apart from EndsWith, which models the code)
IsSuffix(p, buf) == \E n \in 0..Len(buf) : buf = SubSeq(buf, 1, n) \o p

\* how often e occurs in the sequence t
Count(t, e) == Cardinality({i \in 1..Len(t) : t[i] = e})

\* the position of the first e in t, or 0
Pos(t, e) == IF Count(t, e) = 0 THEN 0 ELSE CHOOSE i \in 1..Len(t) : t[i] = e /\ \A j \in 1..(i - 1) : t[j] # e

\* t without its wake signals
NoWakes(t) == SelectSeq(t, LAMBDA e : e # "wake")

Last(t) == t[Len(t)]

Range(t) == {t[i] : i \in 1..Len(t)}

\* the prompts a response wait accepts (stated apart from PromptList, which models the code)
PromptListOf(expected) == IF expected = NoPrompt THEN prompts ELSE <<expected>>

IsPrefix(a, b) == Len(a) <= Len(b) /\ SubSeq(b, 1, Len(a)) = a

InWakeup == pc \in {"wakeup", "wakeup_cycle", "wakeup_check"}
InCall == pc # "idle"

(***************************************************************************)
(* C1: a call of _do_cmd_resp or _do_cmd_no_resp with a command id that    *)
(* has no build handler ends at once with the bad-command error: the call  *)
(* is over, no wake signal and no command was sent (the call's trace is    *)
(* empty), and the step that makes the call leaves the line buffer and     *)
(* the prompt buffer as they were.                                         *)
(***************************************************************************)
C1_BadCommandBeforeIO ==
    /\ [](cur.kind \in {"resp", "no_resp"} /\ cur.cmd \notin BuildHandlers =>
            /\ pc = "idle"
            /\ outcome = Raised(BAD_DRIVER_COMMAND)
            /\ trace = <<>>
            /\ handled = <<>>)
    /\ [][(pc = "idle" /\ cb' = cb /\ gd' = gd /\ cur'.cmd \notin BuildHandlers) =>
            (linebuf' = linebuf /\ promptbuf' = promptbuf /\ pc' = "idle")]_vars

\* a bad-command call was made while both buffers held bytes
C1_Witness ==
    /\ cur.cmd \notin BuildHandlers
    /\ outcome = Raised(BAD_DRIVER_COMMAND)
    /\ linebuf # <<>>
    /\ promptbuf # <<>>

(***************************************************************************)
(* C2: in every execution of _do_cmd_resp the steps come in the order      *)
(* wake signals, wakeup match, line buffer cleared, prompt buffer cleared, *)
(* command transmitted, response match, response handler; so nothing is    *)
(* transmitted before the wakeup has matched.  When the wakeup times out   *)
(* the call ends with the timeout error, nothing was transmitted and the   *)
(* handler was not invoked.                                                *)
(***************************************************************************)
RespOrder == <<"wakeup_ok", "clear_line", "clear_prompt", "send", "response_ok", "handler">>

C2_RespStepOrder ==
    cur.kind = "resp" =>
        /\ \/ IsPrefix(NoWakes(trace), RespOrder)
           \/ NoWakes(trace) = <<"wakeup_timeout">>
           \/ NoWakes(trace) = SubSeq(RespOrder, 1, 4) \o <<"response_timeout">>
        \* every wake signal precedes the wakeup's match or timeout
        /\ \A i \in 1..Len(trace) : trace[i] = "wake" => \A j \in 1..i : trace[j] = "wake"
        /\ Pos(trace, "wakeup_timeout") > 0 =>
              /\ pc = "idle"
              /\ outcome = Raised(TIMEOUT)
              /\ Count(trace, "send") = 0
              /\ handled = <<>>
        /\ Count(trace, "handler") = Len(handled)
        \* the steps are taken where the trace says they are
        /\ pc = "send" => Pos(trace, "clear_prompt") > 0
        /\ pc \in {"get_response", "return_response", "handler"} => Pos(trace, "send") > 0

\* a _do_cmd_resp that went through all its steps, after two wake signals
C2_Witness ==
    /\ cur.kind = "resp"
    /\ pc = "idle"
    /\ outcome.status = "returned"
    /\ trace = <<"wake", "wake">> \o RespOrder

(***************************************************************************)
(* C3 (as claimed): from the wakeup's clearing of the prompt buffer on,    *)
(* the prompt buffer of a _do_cmd_resp call equals that of a fresh engine  *)
(* given the same arrivals, and from the reset of the line buffer on so    *)
(* does the line buffer, whatever the buffers held when the call was made; *)
(* so the response handed on is that of the fresh engine.                  *)
(***************************************************************************)
C3_NoResidue ==
    cur.kind = "resp" =>
        /\ pc \in {"wakeup_cycle", "wakeup_check", "clear_line", "clear_prompt", "send",
                   "get_response", "return_response", "handler"} => promptbuf = fprompt
        /\ pc \in {"clear_prompt", "send", "get_response", "return_response"} =>
              linebuf = fline
        /\ pc = "handler" => IsPrefix(result, fline)

(***************************************************************************)
(* C4 (as claimed): _do_cmd_no_resp clears both buffers after the wakeup   *)
(* and then transmits once and returns OK: at the transmission the prompt  *)
(* buffer was cleared, so that both buffers are empty when no byte has     *)
(* arrived since the wakeup matched.                                       *)
(***************************************************************************)
C4_NoRespClearsBoth ==
    /\ (cur.kind = "no_resp" /\ pc = "send") =>
          /\ NoWakes(trace) = <<"wakeup_ok", "clear_line", "clear_prompt">>
          /\ quiet => (linebuf = <<>> /\ promptbuf = <<>>)
    /\ (cur.kind = "no_resp" /\ Pos(trace, "send") > 0) =>
          /\ Count(trace, "send") = 1
          /\ outcome = Returned(OkResult)

(***************************************************************************)
(* C5: _wakeup always terminates; while it runs no more than timeout plus  *)
(* one retry interval has elapsed since its start; and when no test of its *)
(* last pass over the prompt list found the prompt buffer to end with the  *)
(* prompt tested, it has raised the timeout error, later than timeout and  *)
(* no later than timeout + 1 s after its start, without returning a       *)
(* prompt.                                                                 *)
(***************************************************************************)
WakeupTimeoutRaised == trace # <<>> /\ Last(trace) = "wakeup_timeout"

C5_WakeupBounded ==
    /\ [](InWakeup => elapsed <= cur.timeout + WakeupSleep)
    /\ [](pc = "wakeup_cycle" => elapsed <= cur.timeout)
    /\ [](WakeupTimeoutRaised =>
            /\ pc = "idle"
            /\ outcome = Raised(TIMEOUT)
            /\ prompt = <<>>
            /\ elapsed > cur.timeout
            /\ elapsed <= cur.timeout + WakeupSleep
            /\ Len(seen) = Len(prompts)
            /\ \A i \in 1..Len(prompts) : ~IsSuffix(prompts[i], seen[i]))
    /\ (InWakeup ~> ~InWakeup)

\* a wakeup that timed out after two wake signals, with bytes in the prompt buffer
C5_Witness ==
    /\ WakeupTimeoutRaised
    /\ Count(trace, "wake") = 2
    /\ Len(prompts) = 2
    /\ Last(seen) # <<>>

(***************************************************************************)
(* C6: _wakeup sends one wake signal per retry interval, all before the    *)
(* match, so that k signals have been sent when the prompt is found at the *)
(* k-th check; a check goes on to the next cycle only when none of its     *)
(* tests matched; and the prompt returned is the first of the configured   *)
(* list, in list order, whose test found the prompt buffer to end with it  *)
(* in that check.  The tests of one check read the buffer one after the    *)
(* other: when the buffer stayed as it was during the check, the prompt    *)
(* returned is the first of the list that this buffer ends with.           *)
(***************************************************************************)
WakeupReturned == trace # <<>> /\ Last(trace) = "wakeup_ok"

C6_WakeupFirstPrompt ==
    /\ pc \in {"wakeup_cycle", "wakeup_check"} =>
          Count(trace, "wake") * WakeupSleep = elapsed
    /\ WakeupReturned =>
          /\ Count(trace, "wake") >= 1
          /\ Count(trace, "wake") * WakeupSleep = elapsed
          /\ trace = [i \in 1..Count(trace, "wake") |-> "wake"] \o <<"wakeup_ok">>
          /\ Len(seen) \in 1..Len(prompts)
          /\ prompt = prompts[Len(seen)]
          /\ IsSuffix(prompt, Last(seen))
          /\ \A j \in 1..(Len(seen) - 1) : ~IsSuffix(prompts[j], seen[j])
          /\ (\A j \in 1..Len(seen) : seen[j] = Last(seen)) =>
                \A j \in 1..(Len(seen) - 1) : ~IsSuffix(prompts[j], Last(seen))
          /\ cur.kind = "wakeup" => outcome = Returned(WakeupResult(prompt))
    /\ pc = "wakeup_check" =>
          /\ Len(seen) = idx - 1
          /\ \A j \in 1..Len(seen) : ~IsSuffix(prompts[j], seen[j])

\* the second prompt of the list is returned at the second check
C6_Witness ==
    /\ WakeupReturned
    /\ Count(trace, "wake") = 2
    /\ Len(seen) = 2
    /\ prompt = P1
    /\ cur.kind = "wakeup"

(***************************************************************************)
(* C7: _get_response ends its wait with prompt p only if the prompt buffer *)
(* ended with p at that test, p being a configured prompt when             *)
(* expected_prompt is unset and expected_prompt itself when it is set; and *)
(* what it returns is p with the line buffer.                              *)
(***************************************************************************)
ResponseMatched == trace # <<>> /\ Last(trace) = "response_ok"

C7_ResponseOnlyOnSuffix ==
    /\ ResponseMatched =>
          /\ seen # <<>>
          /\ IsSuffix(prompt, Last(seen))
          /\ cur.expected = NoPrompt => prompt \in Range(prompts)
          /\ cur.expected # NoPrompt => prompt = cur.expected
    /\ (cur.kind = "get_response" /\ outcome.status = "returned") =>
          /\ ResponseMatched
          /\ outcome.result = [by |-> "_get_response", response |-> result, prompt |-> prompt]
    \* while the wait lasts, no finished test of the pass had a match
    /\ pc = "get_response" =>
          \A j \in 1..Len(seen) :
              /\ j <= Len(PromptListOf(cur.expected))
              /\ ~IsSuffix(PromptListOf(cur.expected)[j], seen[j])

\* the wait for an expected prompt went on past a buffer that ended with
\* another configured prompt, and then matched
C7_Witness ==
    /\ ResponseMatched
    /\ cur.expected = P2
    /\ prompts = <<P2, P1>>
    /\ elapsed > 0
    /\ Last(seen) = P2

(***************************************************************************)
(* C8: every wait is bounded.  _get_response always comes to an end: while *)
(* it waits, the time elapsed since its start is at most timeout plus the  *)
(* sleeps of one pass over its prompt list (one tick when the list is      *)
(* empty), and it ends by a match or, once the elapsed time exceeds        *)
(* timeout, by the timeout error; so every call of the engine terminates.  *)
(***************************************************************************)
ResponseTimeoutRaised == trace # <<>> /\ Last(trace) = "response_timeout"

\* the longest a pass of _get_response sleeps, in ticks
PassSleep == IF PromptListOf(cur.expected) = <<>> THEN 1
             ELSE Len(PromptListOf(cur.expected)) * ResponseSleep

C8_EveryWaitBounded ==
    /\ [](pc = "get_response" => elapsed <= cur.timeout + PassSleep)
    /\ [](ResponseTimeoutRaised =>
            /\ pc = "idle"
            /\ outcome = Raised(TIMEOUT)
            /\ elapsed > cur.timeout)
    /\ (InCall ~> ~InCall)

\* a response wait on an empty prompt list has timed out
C8_Witness ==
    /\ ResponseTimeoutRaised
    /\ PromptListOf(cur.expected) = <<>>
    /\ cur.timeout = MaxTimeout
    /\ promptbuf # <<>>

(***************************************************************************)
(* C9: when _do_cmd_resp has returned, then, if a response handler is      *)
(* registered for the command, the handler was invoked exactly once, after *)
(* the match, with the response text and the prompt that _get_response     *)
(* returned, and the call's result is the handler's; if none is            *)
(* registered, no handler was invoked and the call's result is None.       *)
(***************************************************************************)
C9_HandlerOnceWithResponse ==
    (cur.kind = "resp" /\ outcome.status = "returned") =>
        /\ Pos(trace, "response_ok") > 0
        /\ IsSuffix(prompt, Last(seen))
        /\ IF cur.cmd \in ResponseHandlers
           THEN /\ handled = << <<result, prompt>> >>
                /\ Count(trace, "handler") = 1
                /\ Pos(trace, "response_ok") < Pos(trace, "handler")
                /\ outcome.result = [by |-> cur.cmd, response |-> result, prompt |-> prompt]
           ELSE /\ handled = <<>>
                /\ Count(trace, "handler") = 0
                /\ outcome.result = NoneResult

\* the handler was given a response with a body before the prompt
C9_Witness ==
    /\ cur.kind = "resp"
    /\ outcome.status = "returned"
    /\ cur.cmd \in ResponseHandlers
    /\ Len(result) > Len(prompt)

(***************************************************************************)
(* C10: no implicit retries.  In one call of _do_cmd_resp or               *)
(* _do_cmd_no_resp the command is transmitted at most once; when the       *)
(* response wait has timed out, the call has ended with the timeout error, *)
(* the command was transmitted exactly once and the handler was not        *)
(* invoked.                                                                *)
(***************************************************************************)
C10_NoImplicitRetry ==
    /\ Count(trace, "send") <= 1
    /\ ResponseTimeoutRaised =>
          /\ pc = "idle"
          /\ outcome = Raised(TIMEOUT)
          /\ cur.kind = "resp" => Count(trace, "send") = 1
          /\ handled = <<>>
    /\ (cur.kind \in {"resp", "no_resp"} /\ outcome.status = "returned") =>
          Count(trace, "send") = 1

\* a _do_cmd_resp whose response wait timed out although bytes arrived
C10_Witness ==
    /\ cur.kind = "resp"
    /\ ResponseTimeoutRaised
    /\ linebuf # <<>>
    /\ cur.timeout = MaxTimeout

(***************************************************************************)
(* C26 (as claimed): the appends of _got_data and the caller's resets do   *)
(* not interfere.  Whenever the callback stores into a buffer, the buffer  *)
(* becomes what it holds at that moment followed by the chunk: no reset    *)
(* that completed before the store is undone by it, no byte of before a    *)
(* reset comes back, none is lost and none is doubled.                     *)
(***************************************************************************)
C26_AppendsKeepResets ==
    /\ [][(gd.at = "line" /\ gd'.at = "between") => linebuf' = linebuf \o cb]_vars
    /\ [][(gd.at = "prompt" /\ gd'.at = "idle") => promptbuf' = promptbuf \o cb]_vars

(***************************************************************************)
(* C28 (as claimed): whenever no arrival callback is running and the       *)
(* caller is between two calls, the prompt buffer is the end of the line   *)
(* buffer.                                                                 *)
(***************************************************************************)
C28_PromptIsEndOfLine ==
    (gd = GotDataIdle /\ pc = "idle") => IsSuffix(promptbuf, linebuf)

(***************************************************************************)
(* C30 (as claimed): _wakeup is not satisfied by a stale prompt.  When it  *)
(* returns or times out it has sent at least one wake signal and has       *)
(* waited one retry interval, whatever the timeout; and the prompt it      *)
(* returns is the end of the bytes that were appended to the prompt buffer *)
(* since the call began.                                                   *)
(***************************************************************************)
C30_NoStalePrompt ==
    /\ []((WakeupReturned \/ WakeupTimeoutRaised) =>
            /\ Count(trace, "wake") >= 1
            /\ elapsed >= WakeupSleep)
    /\ [][(pc = "wakeup_check" /\ trace' = Append(trace, "wakeup_ok")) =>
            IsSuffix(prompt', fprompt)]_vars

(***************************************************************************)
(* The engine with the history of the arrivals kept.                       *)
(***************************************************************************)
WatchInit ==
    /\ EngineInit
    /\ rt = RoundTrip(PyValue("NoneType", 0))
    /\ obs = Watching(TRUE)
    /\ device = AnyDevice
    /\ current_state = "UNKNOWN"

WatchSpec == WatchInit /\ [][Next]_vars

(***************************************************************************)
(* C25: partial arrival is tolerated.  Every test of _wakeup and of        *)
(* _get_response matches exactly when the prompt buffer as accumulated at  *)
(* that moment ends with the prompt tested, in however many chunks the     *)
(* bytes came: so a prompt that came in pieces is matched at the first     *)
(* test of it after its last piece was appended.  The response text that   *)
(* _get_response returns is the line buffer, and it ends with all the      *)
(* bytes appended since the reset of the line buffer, in their order.      *)
(***************************************************************************)
C25_PartialArrivalTolerated ==
    /\ [][(pc = "wakeup_check" /\ seen' = Append(seen, promptbuf)) =>
            ((prompt' = prompts[idx] /\ trace' = Append(trace, "wakeup_ok"))
                <=> IsSuffix(prompts[idx], promptbuf))]_vars
    /\ [][(pc = "get_response" /\ seen' = Append(seen, promptbuf)) =>
            ((prompt' = PromptListOf(cur.expected)[idx] /\ trace' = Append(trace, "response_ok"))
                <=> IsSuffix(PromptListOf(cur.expected)[idx], promptbuf))]_vars
    /\ [][(pc = "return_response" /\ pc' # "return_response") =>
            (result' = linebuf /\ IsSuffix(fline, result'))]_vars

\* the response wait of a _do_cmd_resp has matched the prompt "->", which
\* two callbacks appended to the prompt buffer, "-" and then ">", after its reset
C25_Witness ==
    /\ cur.kind = "resp"
    /\ ResponseMatched
    /\ prompt = P2
    /\ obs.pieces = 2
    /\ fprompt = P2
    /\ promptbuf = P2

(***************************************************************************)
(* C27 (as claimed): in _do_cmd_resp the prompt that ends the response     *)
(* wait is the device's reply to the command and no reply to a wake        *)
(* signal.  When the device has sent no more chunks during the call than   *)
(* wake signals were sent, so that each chunk may be the reply to one of   *)
(* them, and the response wait has matched, then a chunk was appended to   *)
(* the prompt buffer after the command was transmitted.                    *)
(***************************************************************************)
C27_OwnResponseOnly ==
    (/\ cur.kind = "resp"
     /\ Pos(trace, "response_ok") > 0
     /\ obs.chunks <= Count(trace, "wake")) => obs.answered

(***************************************************************************)
(* The engine with an instrument whose reply to the command is fixed in    *)
(* advance: until the command line is transmitted any chunk may arrive,    *)
(* and from then on the transport delivers the reply and nothing else, in  *)
(* chunks of any size and at any moment.  The reply goes to the first      *)
(* command line transmitted.                                               *)
(***************************************************************************)
\* the replies of the instrument: two bytes, so that a reply can arrive in two chunks
Streams == {<<a, b>> : a, b \in {"-", ">"}}

ReplyInit ==
    /\ EngineInit
    /\ rt = RoundTrip(PyValue("NoneType", 0))
    /\ obs = Watching(FALSE)
    /\ device \in {Scripted(stream) : stream \in Streams}
    /\ current_state = "UNKNOWN"

ReplySpec == ReplyInit /\ [][Next]_vars

\* what _do_cmd_resp hands to the response handler when the whole of stream is in
\* both buffers at the first test of _get_response: the first item of the list
\* that the prompt buffer ends with, and the line buffer; nothing when no item is
AtOnce(stream, list) ==
    LET hits == {i \in 1..Len(list) : EndsWith(stream, list[i])}
    IN  IF hits = {}
        THEN <<>>
        ELSE <<HandlerArgs(stream, list[CHOOSE i \in hits : \A j \in hits : i <= j])>>

(***************************************************************************)
(* C31 (as claimed): for a fixed byte stream sent by the device after a    *)
(* command, _do_cmd_resp hands the same (response, prompt) pair to the     *)
(* response handler however the stream is split into chunks and however    *)
(* arrivals and polls are timed.  One of those ways is that the whole      *)
(* stream arrives before the first poll; so, whenever the buffers were     *)
(* empty and no callback was running as the command was transmitted, and   *)
(* that way hands a pair to the handler, the handler is invoked with that  *)
(* pair and with no other.                                                 *)
(***************************************************************************)
C31_SameForEverySplit ==
    (/\ device.scripted
     /\ device.clean
     /\ cur.kind = "resp"
     /\ handled # <<>>
     /\ AtOnce(device.stream, PromptList(cur.expected)) # <<>>)
        => handled = AtOnce(device.stream, PromptList(cur.expected))

(***************************************************************************)
(* The connection lifecycle of InstrumentProtocol: initialize, configure,  *)
(* connect, disconnect, attach and detach.                                 *)
(*                                                                         *)
(* EthernetDeviceLogger and LoggerClient come from                         *)
(* ion.services.mi.logger_process, which is not among the sources: they    *)
(* are modelled as the collaborator the specification describes, a         *)
(* transport handle with launch_process, get_pid and stop and a client     *)
(* with which the arrival callback is registered and unregistered.  The    *)
(* transport process of an endpoint is found through the endpoint (the     *)
(* source speaks of "a pidfile for the device"), so that a second handle   *)
(* built for the same endpoint sees and stops the same process.  None of   *)
(* the collaborator's operations is described as failing.                  *)
(*                                                                         *)
(* Each call runs to its end in one step; the calls of one engine follow   *)
(* one another in any order.                                               *)
(***************************************************************************)
\* EthernetDeviceLogger(device_addr, device_port, server_port)
Logger(e) == <<"logger", e>>
\* LoggerClient(server_addr, server_port): a new client, no callback registered
Client(e) == <<"client", e, "idle">>
\* the endpoint a handle or a client was built for
EndpointOf(h) == h[2]
\* the pid of the transport process of an endpoint
Pid(e) == <<"pid", e>>

\* logger.get_pid(): the pid of the running process of the handle's endpoint, or None
get_pid(h, running) == IF EndpointOf(h) \in running THEN Pid(EndpointOf(h)) ELSE None
\* logger.launch_process()
launch_process(h, running) == running \cup {EndpointOf(h)}
\* logger.stop()
stop(h, running) == running \ {EndpointOf(h)}
\* client.init_comms(callback)
init_comms(c) == <<"client", EndpointOf(c), "listening">>
\* client.stop_comms()
stop_comms(c) == <<"client", EndpointOf(c), "idle">>
\* the callback of client c is registered
Listening(c) == c # None /\ c[3] = "listening"

\* the engine holds a handle whose process runs and a client that listens to it
Connected ==
    /\ logger # None
    /\ EndpointOf(logger) \in procs
    /\ Listening(logger_client)
\* no transport process runs and no callback is registered
Down == procs = {} /\ listeners = {}

\* configure, its first statement: if method == InterfaceType.ETHERNET
ConfigureEthernet(method, e, handles) ==
    IF method = ETHERNET THEN <<Logger(e), Client(e)>> ELSE handles

\* configure, its second statement: if SLOW_ETHERNET / elif SERIAL / else, and the return
ConfigureChain(method, e, handles) ==
    IF method = SLOW_ETHERNET
    THEN [handles |-> <<Logger(e), Client(e)>>, out |-> Gave(OK)]
    ELSE IF method = SERIAL
    THEN [handles |-> handles, out |-> Failed(ConnectionError)]
    ELSE [handles |-> handles, out |-> Failed(ConnectionError)]

\* what connect returns after a launch: the local variable logger_pid
ConnectReturn(logger_pid, h) == logger_pid

\* the record of a call that is about to run
ConnCall(op, method, e) ==
    [op |-> op, method |-> method, ep |-> e, out |-> NotCalled,
     pre |-> <<logger, logger_client>>, launched |-> 0, steps |-> <<>>,
     hadPid |-> FALSE, wasConnected |-> Connected, wasDown |-> Down]

\* the endpoint of the handle the engine holds
HeldEndpoint == IF logger = None THEN "none" ELSE EndpointOf(logger)

Initialize ==
    /\ logger' = None
    /\ logger_client' = None
    /\ last' = [ConnCall("initialize", "none", HeldEndpoint) EXCEPT !.out = Gave(OK)]
    /\ late' = FALSE
    /\ UNCHANGED <<chunkVars, procs, listeners, ran, engineVars, dictVars, callers>>

Configure ==
    \E method \in Methods, e \in Endpoints :
        LET first == ConfigureEthernet(method, e, <<logger, logger_client>>)
            res == ConfigureChain(method, e, first)
        IN  /\ logger' = res.handles[1]
            /\ logger_client' = res.handles[2]
            /\ last' = [ConnCall("configure", method, e) EXCEPT !.out = res.out]
            /\ late' = FALSE
            /\ UNCHANGED <<chunkVars, procs, listeners, ran, engineVars, dictVars, callers>>

Connect ==
    /\ late' = FALSE
    /\ IF logger = None
       THEN \* self._logger.get_pid() on None
            /\ last' = [ConnCall("connect", "none", HeldEndpoint) EXCEPT
                            !.out = Failed(AttributeError)]
            /\ UNCHANGED <<logger, logger_client, procs, listeners>>
       ELSE LET logger_pid == get_pid(logger, procs)
                call == [ConnCall("connect", "none", HeldEndpoint) EXCEPT
                            !.hadPid = (logger_pid # None),
                            !.steps = <<"get_pid">>]
            IN  IF logger_pid = None
                THEN /\ procs' = launch_process(logger, procs)
                     /\ IF logger_client = None
                        THEN \* attach: self._logger_client.init_comms on None
                             /\ last' = [call EXCEPT
                                            !.out = Failed(AttributeError),
                                            !.launched = 1,
                                            !.steps = <<"get_pid", "launch_process">>]
                             /\ UNCHANGED <<logger_client, listeners>>
                        ELSE /\ logger_client' = init_comms(logger_client)
                             /\ listeners' = listeners \cup {EndpointOf(logger_client)}
                             /\ last' = [call EXCEPT
                                            !.out = Gave(ConnectReturn(logger_pid, logger)),
                                            !.launched = 1,
                                            !.steps = <<"get_pid", "launch_process",
                                                        "init_comms">>]
                     /\ UNCHANGED logger
                ELSE \* there was a pidfile for the device
                     /\ last' = [call EXCEPT !.out = Failed(ConnectionError)]
                     /\ UNCHANGED <<logger, logger_client, procs, listeners>>
    /\ UNCHANGED <<chunkVars, ran, engineVars, dictVars, callers>>

Disconnect ==
    /\ late' = FALSE
    /\ IF logger_client = None
       THEN \* detach: self._logger_client.stop_comms() on None
            /\ last' = [ConnCall("disconnect", "none", HeldEndpoint) EXCEPT
                            !.out = Failed(AttributeError)]
            /\ UNCHANGED <<logger, logger_client, procs, listeners>>
       ELSE LET detached == IF Listening(logger_client)
                            THEN listeners \ {EndpointOf(logger_client)}
                            ELSE listeners
            IN  /\ logger_client' = stop_comms(logger_client)
                /\ IF logger = None
                   THEN \* self._logger.stop() on None
                        /\ last' = [ConnCall("disconnect", "none", HeldEndpoint) EXCEPT
                                        !.out = Failed(AttributeError),
                                        !.steps = <<"stop_comms">>]
                        /\ listeners' = detached
                        /\ UNCHANGED procs
                   ELSE \* a process that stops takes its clients' connections with it
                        /\ procs' = stop(logger, procs)
                        /\ listeners' = detached \ {EndpointOf(logger)}
                        /\ last' = [ConnCall("disconnect", "none", HeldEndpoint) EXCEPT
                                        !.out = Gave(OK),
                                        !.steps = <<"stop_comms", "stop">>]
                /\ UNCHANGED logger
    /\ UNCHANGED <<chunkVars, ran, engineVars, dictVars, callers>>

\* a client whose callback is registered delivers a chunk: _got_data
Arrival ==
    \E e \in listeners, data \in Chunks :
        /\ Len(linebuf) + Len(data) <= MaxBuf
        /\ Len(promptbuf) + Len(data) <= MaxBuf
        /\ linebuf' = linebuf \o data
        /\ promptbuf' = promptbuf \o data
        /\ late' = (late \/ (last.op = "disconnect" /\ last.out.status = "returned"))
        /\ UNCHANGED <<chunkVars, gd, obs, logger, logger_client, procs, listeners, last, ran, dictVars, callers,
                       prompts, device, cb, pc, cur, idx, elapsed, prompt, result, outcome,
                       trace, handled, fline, fprompt, seen, quiet, residue>>

\* run_script(script): the body of the method is its docstring alone, so the
\* call interprets nothing, sends nothing, sleeps nowhere and returns None
run_script(script) == [script |-> script, did |-> <<>>, out |-> Gave(None)]

RunScript ==
    \E script \in Scripts :
        /\ ran' = run_script(script)
        /\ UNCHANGED <<chunkVars, logger, logger_client, procs, listeners, last, late,
                       engineVars, dictVars, callers>>

LifeInit == Init /\ prompts = <<P1>>

LifeNext ==
    \/ Initialize
    \/ Configure
    \/ Connect
    \/ Disconnect
    \/ Arrival
    \/ RunScript

LifeSpec == LifeInit /\ [][LifeNext]_vars

(***************************************************************************)
(* C12: configure with method ethernet or slow_ethernet succeeds: it       *)
(* returns InstErrorCode.OK and leaves the engine holding the transport    *)
(* handle and the client built for the endpoint, and it neither launches   *)
(* the transport process nor registers the arrival callback.               *)
(***************************************************************************)
C12_ConfigureEthernetSucceeds ==
    (last.op = "configure" /\ last.method \in {ETHERNET, SLOW_ETHERNET}) =>
        /\ last.out = Gave(OK)
        /\ logger = Logger(last.ep)
        /\ logger_client = Client(last.ep)
        /\ last.launched = 0
        /\ last.steps = <<>>

(***************************************************************************)
(* C13: whenever configure fails with a connection error, the transport    *)
(* handle and the client are what they were before the call; a failed      *)
(* configure on an engine without handles leaves it without handles (so    *)
(* that a following connect fails).                                        *)
(***************************************************************************)
C13_FailedConfigureKeepsHandles ==
    (last.op = "configure" /\ last.out = Failed(ConnectionError)) =>
        /\ <<logger, logger_client>> = last.pre
        /\ last.pre = <<None, None>> => logger = None

(***************************************************************************)
(* C14: connect refuses duplicate launches.  When get_pid reports a        *)
(* running process, connect fails with a connection error, launches        *)
(* nothing and does not register the callback; a successful connect        *)
(* launches exactly one process; at any time at most one transport process *)
(* launched by the engine is running.                                      *)
(***************************************************************************)
C14_NoDuplicateLaunch ==
    /\ (last.op = "connect" /\ last.hadPid) =>
          /\ last.out = Failed(ConnectionError)
          /\ last.launched = 0
          /\ last.steps = <<"get_pid">>
    /\ (last.op = "connect" /\ last.out.status = "returned") => last.launched = 1
    /\ Cardinality(procs) <= 1

(***************************************************************************)
(* C15: a successful connect returns the pid of the transport process it   *)
(* launched, which is not None and names the process that now runs.        *)
(***************************************************************************)
C15_ConnectReturnsPid ==
    (last.op = "connect" /\ last.out.status = "returned") =>
        /\ last.out.value # None
        /\ last.out.value = Pid(last.ep)

(***************************************************************************)
(* C16: the transitions are ordered.  connect on an engine that holds no   *)
(* handle (never configured, or reset by initialize) fails and launches    *)
(* nothing; disconnect on an engine with no active connection (no process  *)
(* runs, no callback is registered) fails instead of returning             *)
(* InstErrorCode.OK.                                                       *)
(***************************************************************************)
C16_TransitionsOrdered ==
    /\ (last.op = "connect" /\ last.pre[1] = None) =>
          /\ last.out.status = "raised"
          /\ last.launched = 0
    /\ (last.op = "disconnect" /\ last.wasDown) => last.out.status = "raised"

(***************************************************************************)
(* C17: disconnect on a connected engine unregisters the arrival callback  *)
(* and then stops the transport process, so that the process connect       *)
(* launched runs no more; once it has returned, no callback of the engine  *)
(* is registered and no chunk is appended to the buffers.                  *)
(***************************************************************************)
C17_DisconnectDetachesThenStops ==
    (last.op = "disconnect" /\ last.wasConnected) =>
        /\ last.out = Gave(OK)
        /\ last.steps = <<"stop_comms", "stop">>
        /\ last.ep \notin procs
        /\ listeners = {}
        /\ ~late

\* the verbs of the script language: send and delay
ScriptVerbs == {"S", "D"}
\* the tokens of a script up to its first token with an unknown verb
RECURSIVE Recognized(_)
Recognized(script) ==
    IF script = <<>> \/ Head(script)[1] \notin ScriptVerbs
    THEN <<>>
    ELSE <<Head(script)>> \o Recognized(Tail(script))

(***************************************************************************)
(* C23 (as claimed): run_script executes the tokens of its script in       *)
(* order.  For the script S=^C, D=0.5, S=1 it does exactly the send of     *)
(* control-C, the suspension of 0.5 s and the send of "1", in that order;  *)
(* at a token with an unknown verb it fails with the protocol error,       *)
(* having executed the tokens before it and none after it.                 *)
(***************************************************************************)
C23_ScriptInOrder ==
    ran.out # NotCalled =>
        /\ ran.did = Recognized(ran.script)
        /\ ran.script = ScenarioScript => ran.did = ScenarioScript
        /\ IF Recognized(ran.script) # ran.script
           THEN ran.out = Failed(ProtocolError)
           ELSE ran.out.status = "returned"

(***************************************************************************)
(* C29 (as claimed): no transport process is orphaned.  While a process    *)
(* that connect launched is running, self._logger is the handle of that    *)
(* process and self._logger_client is its client, whatever calls of        *)
(* initialize, configure, connect and disconnect were made.                *)
(***************************************************************************)
C29_NoOrphan ==
    \A e \in procs :
        /\ logger = Logger(e)
        /\ logger_client # None
        /\ EndpointOf(logger_client) = e

(***************************************************************************)
(* The parameter dictionary: ParameterDictVal and the _*_param_dict        *)
(* helpers of CommandResponseInstrumentProtocol.                           *)
(*                                                                         *)
(* self._parameters is a Python 2 dict: iteritems() yields its keys in an  *)
(* order the language does not define, which depends on the keys' hashes   *)
(* and not on the order of registration.  The order is therefore chosen    *)
(* freely when a key is inserted, and kept afterwards.                     *)
(*                                                                         *)
(* A pattern is a literal text followed by one group that takes the rest   *)
(* of the input; regex.match anchors it at the start of the input.         *)
(* f_getval is lambda match: match.group(1).                               *)
(***************************************************************************)
\* the pattern each name is registered with: both can match one text
PatternOf(n) == IF n = "a" THEN <<"A">> ELSE <<"A", "B">>
\* the texts _update_param_dict is given
Texts == {<<"A", "1">>, <<"A", "B", "1">>, <<"C", "1">>}
\* the values _set_param_dict is given
SetValues == {<<"7">>}
\* a name that is not a key of a configuration snapshot
Missing == <<"missing">>

\* ParameterDictVal(name, pattern, f_getval, f_format, value=None)
ParameterDictVal(n) == [kind |-> "desc", name |-> n, pattern |-> PatternOf(n), value |-> None]
\* a value stored in self._parameters that is not a ParameterDictVal
RawValue(v) == [kind |-> "raw", name |-> "none", pattern |-> <<>>, value |-> v]

\* self.regex.match(input): None, or the match with its group 1
RegexMatch(pattern, input) ==
    IF Len(input) >= Len(pattern) /\ SubSeq(input, 1, Len(pattern)) = pattern
    THEN <<"match">> \o SubSeq(input, Len(pattern) + 1, Len(input))
    ELSE None
\* f_getval(match): match.group(1)
f_getval(match) == Tail(match)

\* ParameterDictVal.update(input): the descriptor afterwards, and what is returned
update(val, input) ==
    LET match == RegexMatch(val.pattern, input)
    IN  IF match # None
        THEN [val |-> [val EXCEPT !.value = f_getval(match)], ret |-> <<val.name>>]
        ELSE [val |-> val, ret |-> False]

\* isinstance(v, int): bool is a subclass of int, long and float are not
IsInstanceInt(v) == v.type \in {"int", "bool"}
\* the decimal digits of n >= 0
RECURSIVE Digits(_)
Digits(n) ==
    LET digit(d) == <<"0", "1", "2", "3", "4", "5", "6", "7", "8", "9">>[d + 1]
    IN  IF n < 10 THEN <<digit(n)>> ELSE Digits(n \div 10) \o <<digit(n % 10)>>
\* mutant: the sign is not written
PercentIUnsigned(n) == IF n < 0 THEN Digits(0 - n) ELSE Digits(n)
\* '%i' % v
PercentI(n) == IF n < 0 THEN <<"-">> \o Digits(0 - n) ELSE Digits(n)
\* _int_to_string(v)
int_to_string(v) == IF ~IsInstanceInt(v) THEN None ELSE PercentI(v.n)
\* the values _format_param_dict is given
FormatArgs == {PyValue("int", 0 - 12), PyValue("float", 7)}

\* the keys of self._parameters
Keys(ps) == {n \in Names : ps[n].kind # "absent"}

\* _update_param_dict(input), from position i of the iteration on
RECURSIVE update_param_dict(_, _, _, _)
update_param_dict(ps, ord, i, input) ==
    IF i > Len(ord)
    THEN [params |-> ps, out |-> Gave(None)]
    ELSE LET val == ps[ord[i]]
         IN  IF val.kind = "raw"
             THEN \* val.update on a value that is no descriptor
                  [params |-> ps, out |-> Failed(AttributeError)]
             ELSE LET u == update(val, input)
                  IN  IF u.ret # False
                      THEN [params |-> [ps EXCEPT ![ord[i]] = u.val], out |-> Gave(u.ret)]
                      ELSE update_param_dict(ps, ord, i + 1, input)

\* _get_param_dict(name)
get_param_dict(ps, name) ==
    IF ps[name].kind = "absent" THEN Failed(KeyError)
    ELSE IF ps[name].kind = "raw" THEN Failed(AttributeError)
    ELSE Gave(ps[name].value)

\* _get_config_param_dict()
get_config_param_dict(ps) ==
    IF \E n \in Keys(ps) : ps[n].kind = "raw"
    THEN [out |-> Failed(AttributeError), config |-> [n \in Names |-> Missing]]
    ELSE [out |-> Gave(OK),
          config |-> [n \in Names |-> IF n \in Keys(ps) THEN ps[n].value ELSE Missing]]

\* _get_param_dict_names(): self._parameters.keys(), a new list in the dict's order
get_param_dict_names(ord) == ord

\* _format_param_dict(name, val), every name being registered with
\* f_format = self._int_to_string
format_param_dict(ps, name, v) ==
    IF ps[name].kind = "absent" THEN Failed(KeyError)
    ELSE IF ps[name].kind = "raw" THEN Failed(AttributeError)
    ELSE Gave(int_to_string(v))

\* mutant: the mapping returned is a view of self._parameters
HeldLive(h, ps) ==
    IF h.taken /\ \A n \in Keys(ps) : ps[n].kind = "desc"
    THEN [h EXCEPT !.config = [n \in Names |-> IF n \in Keys(ps) THEN ps[n].value ELSE Missing]]
    ELSE h
\* the mapping a caller holds, after self._parameters has become ps: config is a
\* dict made by the call ("config = {}"), its values are the value objects of
\* that moment, and no statement of the class refers to it afterwards
Held(h, ps) == h

\* _set_param_dict(name, value)
set_param_dict(ps, name, value) == [ps EXCEPT ![name] = RawValue(value)]

\* the key n enters the dict at position k of the iteration
InsertAt(ord, n, k) == SubSeq(ord, 1, k - 1) \o <<n>> \o SubSeq(ord, k, Len(ord))

\* the record of a dictionary call that is about to run
DictCall(op, name, arg) ==
    [op |-> op, name |-> name, arg |-> arg, out |-> NotCalled,
     config |-> [n \in Names |-> Missing], pre |-> parameters]

AddParamDict ==
    \E n \in Names :
        /\ parameters' = [parameters EXCEPT ![n] = ParameterDictVal(n)]
        /\ IF n \in Keys(parameters)
           THEN order' = order
           ELSE \E k \in 1..(Len(order) + 1) : order' = InsertAt(order, n, k)
        /\ registered' = IF \E i \in 1..Len(registered) : registered[i] = n
                         THEN registered
                         ELSE Append(registered, n)
        /\ pout' = [DictCall("add", n, <<>>) EXCEPT !.out = Gave(None)]
        /\ held' = Held(held, parameters')
        /\ UNCHANGED <<chunkVars, rt, engineVars, lifeVars, callers>>

SetParamDict ==
    \E n \in Names, v \in SetValues :
        /\ parameters' = set_param_dict(parameters, n, v)
        /\ IF n \in Keys(parameters)
           THEN order' = order
           ELSE \E k \in 1..(Len(order) + 1) : order' = InsertAt(order, n, k)
        /\ pout' = [DictCall("set", n, v) EXCEPT !.out = Gave(None)]
        /\ held' = Held(held, parameters')
        /\ UNCHANGED <<chunkVars, registered, rt, engineVars, lifeVars, callers>>

UpdateParamDict ==
    \E input \in Texts :
        LET res == update_param_dict(parameters, order, 1, input)
        IN  /\ parameters' = res.params
            /\ pout' = [DictCall("update", "none", input) EXCEPT !.out = res.out]
            /\ held' = Held(held, parameters')
            /\ UNCHANGED <<chunkVars, order, registered, rt, engineVars, lifeVars, callers>>

GetParamDict ==
    \E n \in Names :
        /\ pout' = [DictCall("get", n, <<>>) EXCEPT !.out = get_param_dict(parameters, n)]
        /\ UNCHANGED <<chunkVars, parameters, order, registered, held, rt, engineVars, lifeVars, callers>>

GetParamDictNames ==
    /\ pout' = [DictCall("names", "none", <<>>) EXCEPT !.out = Gave(get_param_dict_names(order))]
    /\ UNCHANGED <<chunkVars, parameters, order, registered, held, rt, engineVars, lifeVars, callers>>

GetConfigParamDict ==
    LET res == get_config_param_dict(parameters)
    IN  /\ pout' = [DictCall("get_config", "none", <<>>) EXCEPT
                        !.out = res.out, !.config = res.config]
        /\ held' = IF res.out = Gave(OK)
                   THEN [taken |-> TRUE, config |-> res.config, pre |-> parameters]
                   ELSE held
        /\ UNCHANGED <<chunkVars, parameters, order, registered, rt, engineVars, lifeVars, callers>>

FormatParamDict ==
    \E n \in Names, v \in FormatArgs :
        /\ pout' = [DictCall("format", n, <<>>) EXCEPT !.out = format_param_dict(parameters, n, v)]
        /\ UNCHANGED <<chunkVars, parameters, order, registered, held, rt, engineVars, lifeVars, callers>>

DictInit == Init /\ prompts = <<P1>>

DictNext ==
    \/ AddParamDict
    \/ SetParamDict
    \/ UpdateParamDict
    \/ GetParamDict
    \/ GetParamDictNames
    \/ GetConfigParamDict
    \/ FormatParamDict

DictSpec == DictInit /\ [][DictNext]_vars

\* the descriptors of ps whose pattern matches the text
Matching(ps, input) ==
    {n \in Names : ps[n].kind = "desc" /\ RegexMatch(ps[n].pattern, input) # None}

\* of the names in S, the one that was registered first
Earliest(S) == CHOOSE n \in S : \A m \in S : Pos(registered, n) <= Pos(registered, m)

(***************************************************************************)
(* C18: _update_param_dict is first-match-wins in registration order.      *)
(* When the patterns of several registered descriptors match the text, the *)
(* earliest registered of them gets the extracted value and its name is    *)
(* returned; every other descriptor keeps its value.                       *)
(***************************************************************************)
C18_FirstMatchInRegistrationOrder ==
    (pout.op = "update" /\ Matching(pout.pre, pout.arg) # {}) =>
        LET first == Earliest(Matching(pout.pre, pout.arg))
        IN  /\ pout.out = Gave(<<first>>)
            /\ parameters = [pout.pre EXCEPT
                    ![first].value = f_getval(RegexMatch(pout.pre[first].pattern, pout.arg))]

(***************************************************************************)
(* C19: for a descriptor d and a text t, d.update(t) returns d.name        *)
(* exactly when d.pattern matches t, and then d.value is the extracted     *)
(* value; otherwise d.value is unchanged and False is returned.  An        *)
(* _update_param_dict whose text matches no descriptor leaves every value  *)
(* unchanged and returns the not-found signal (None).                      *)
(***************************************************************************)
C19_UpdateIffMatch ==
    /\ \A n \in Names : \A t \in Texts :
          parameters[n].kind = "desc" =>
              LET d == parameters[n]
                  u == update(d, t)
                  m == RegexMatch(d.pattern, t)
              IN  /\ (u.ret = <<d.name>>) <=> (m # None)
                  /\ m # None => u.val = [d EXCEPT !.value = Tail(m)]
                  /\ m = None => (u.val = d /\ u.ret = False)
    /\ (pout.op = "update" /\ Matching(pout.pre, pout.arg) = {}) =>
          /\ pout.out = Gave(None)
          /\ parameters = pout.pre

(***************************************************************************)
(* C20: an explicit write changes only the value.  After                   *)
(* _set_param_dict(name, v) on a registered name, the descriptor of the    *)
(* name is the one of before with value v (pattern, extractor and          *)
(* formatter retained), _get_param_dict(name) returns v and                *)
(* _get_config_param_dict maps the name to v.                              *)
(***************************************************************************)
C20_SetChangesOnlyValue ==
    (pout.op = "set" /\ pout.pre[pout.name].kind = "desc") =>
        /\ parameters = [pout.pre EXCEPT ![pout.name].value = pout.arg]
        /\ get_param_dict(parameters, pout.name) = Gave(pout.arg)
        /\ get_config_param_dict(parameters).config[pout.name] = pout.arg

(***************************************************************************)
(* C21 (as claimed): a _set_param_dict on a name that is not a key of the  *)
(* dictionary fails with the not-found error (KeyError) and leaves the     *)
(* dictionary as it was, so that the set of names is the one of before.    *)
(***************************************************************************)
C21_SetUnknownFails ==
    (pout.op = "set" /\ pout.pre[pout.name].kind = "absent") =>
        /\ pout.out = Failed(KeyError)
        /\ parameters = pout.pre
        /\ Keys(parameters) = Keys(pout.pre)

(***************************************************************************)
(* C22: read access never mutates.  After _get_param_dict,                 *)
(* _get_param_dict_names, _get_config_param_dict or _format_param_dict,    *)
(* whether it returned or failed, self._parameters is what it was before   *)
(* the call (every value, and the set of names), a _get_param_dict of a    *)
(* name that is no key fails with KeyError, and the mapping that a         *)
(* _get_config_param_dict returned still maps each name to the value it    *)
(* had at the moment of that call, whatever was updated or written since.  *)
(***************************************************************************)
C22_ReadsNeverMutate ==
    /\ pout.op \in {"get", "names", "get_config", "format"} =>
          /\ parameters = pout.pre
          /\ Keys(parameters) = Keys(pout.pre)
          /\ Range(order) = Keys(pout.pre)
    /\ (pout.op = "get" /\ pout.name \notin Keys(pout.pre)) => pout.out = Failed(KeyError)
    /\ held.taken =>
          \A n \in Names :
              held.config[n] = IF held.pre[n].kind = "absent" THEN Missing ELSE held.pre[n].value

\* a mapping was returned, a value of the dictionary was updated since, and
\* the last call was a _get_param_dict that failed on an unknown name
C22_Witness ==
    /\ held.taken
    /\ \E n \in Names :
          /\ held.pre[n].kind = "desc"
          /\ parameters[n].kind = "desc"
          /\ parameters[n].value # held.config[n]
    /\ pout.op = "get"
    /\ pout.out = Failed(KeyError)

(***************************************************************************)
(* The integer formatter and the way back: _int_to_string(v), the text of  *)
(* the instrument that carries the formatted value ("Flush Volume: 150mL") *)
(* and the pattern the driver registers for the parameter, the literal     *)
(* "Flush Volume: ", one group of any characters and the literal "mL".     *)
(* The driver registers the parameter with no extractor                    *)
(* (f_getval is None); the extractor here is int(match.group(1)).          *)
(***************************************************************************)
\* the literal texts of the pattern before and after its group
FlushVolumePrefix == <<"F", "l", "u", "s", "h", " ", "V", "o", "l", "u", "m", "e", ":", " ">>
FlushVolumeSuffix == <<"m", "L">>
\* the line of the instrument that reports the value written as text
WireText(text) == FlushVolumePrefix \o text \o FlushVolumeSuffix

\* re.match of the prefix, a group and the suffix on the input: None, or the match with its
\* group 1, which is greedy: the longest text after the prefix that the suffix follows
GroupMatch(prefix, suffix, input) ==
    LET from == Len(prefix) + 1
        ends == {k \in from..(Len(input) - Len(suffix) + 1) :
                    SubSeq(input, k, k + Len(suffix) - 1) = suffix}
    IN  IF Len(input) >= Len(prefix) /\ SubSeq(input, 1, Len(prefix)) = prefix /\ ends # {}
        THEN <<"match">> \o SubSeq(input, from, (CHOOSE k \in ends : \A j \in ends : j <= k) - 1)
        ELSE None

\* int(text): the int a decimal text with an optional minus sign denotes, and
\* ValueError (no value) for any other text
int(text) ==
    LET DecimalDigits == <<"0", "1", "2", "3", "4", "5", "6", "7", "8", "9">>
        IsDecimal(t) == t # <<>> /\ \A i \in 1..Len(t) : \E d \in 1..10 : DecimalDigits[d] = t[i]
        RECURSIVE DecimalValue(_)
        DecimalValue(t) ==
            IF t = <<>> THEN 0
            ELSE 10 * DecimalValue(SubSeq(t, 1, Len(t) - 1))
                    + (CHOOSE d \in 0..9 : DecimalDigits[d + 1] = t[Len(t)])
    IN  IF IsDecimal(text) THEN PyValue("int", DecimalValue(text))
        ELSE IF text # <<>> /\ Head(text) = "-" /\ IsDecimal(Tail(text))
             THEN PyValue("int", 0 - DecimalValue(Tail(text)))
             ELSE PyValue("ValueError", 0)
\* the integer extractor: lambda match: int(match.group(1))
int_getval(match) == int(f_getval(match))

\* text = _int_to_string(v)
IntToString ==
    /\ rt.at = "input"
    /\ rt' = [rt EXCEPT !.at = "formatted", !.text = int_to_string(rt.v)]
    /\ UNCHANGED <<chunkVars, parameters, order, registered, pout, held, engineVars, lifeVars, callers>>

\* the instrument reports the value it was set to
Embed ==
    /\ rt.at = "formatted"
    /\ rt.text # None
    /\ rt' = [rt EXCEPT !.at = "wire", !.wire = WireText(rt.text)]
    /\ UNCHANGED <<chunkVars, parameters, order, registered, pout, held, engineVars, lifeVars, callers>>

\* the update of the parameter from the line: regex.match, then the extractor
Parse ==
    /\ rt.at = "wire"
    /\ LET match == GroupMatch(FlushVolumePrefix, FlushVolumeSuffix, rt.wire)
       IN  rt' = [rt EXCEPT !.at = "parsed",
                            !.parsed = IF match = None THEN PyValue("NoneType", 0)
                                       ELSE int_getval(match)]
    /\ UNCHANGED <<chunkVars, parameters, order, registered, pout, held, engineVars, lifeVars, callers>>

FormatInit ==
    /\ EngineInit
    /\ prompts = <<P1>>
    /\ obs = Watching(FALSE)
    /\ device = AnyDevice
    /\ current_state = "UNKNOWN"
    /\ rt \in {RoundTrip(v) : v \in FormatInputs}

FormatNext ==
    \/ IntToString
    \/ Embed
    \/ Parse

FormatSpec == FormatInit /\ [][FormatNext]_vars

CommandKinds == {"resp", "no_resp"}

\* thread t is at step, and will be at the step after it
At(t, step) == callers[t].pc = step
Goto(t, step) == callers' = [callers EXCEPT ![t].pc = step]

\* thread t calls _do_cmd_resp or _do_cmd_no_resp: the build handler lookup
ThreadCall(t) ==
    \E kind \in CommandKinds, cmd \in Cmds :
        /\ At(t, "idle")
        /\ callers' = [callers EXCEPT
                ![t] = [pc |-> IF HasBuildHandler(cmd) THEN NextStep(kind, "build") ELSE "idle",
                        kind |-> kind]]
        /\ UNCHANGED <<chunkVars, engineVars, lifeVars, dictVars>>

\* _wakeup: self._promptbuf = ''
ThreadWakeupStart(t) ==
    /\ At(t, "wakeup")
    /\ promptbuf' = WakeupClear(promptbuf)
    /\ Goto(t, "wakeup_check")
    /\ UNCHANGED <<chunkVars, gd, obs, lifeVars, dictVars, prompts, device, linebuf, cb, pc, cur, idx, elapsed, prompt,
                   result, outcome, trace, handled, fline, fprompt, seen, quiet, residue>>

\* _wakeup: the pass over self.prompts.list() after the sleep
ThreadWakeupCheck(t) ==
    /\ At(t, "wakeup_check")
    /\ IF \E i \in 1..Len(prompts) : EndsWith(promptbuf, prompts[i])
       THEN Goto(t, NextStep(callers[t].kind, "wakeup"))
       ELSE Goto(t, "idle")
    /\ UNCHANGED <<chunkVars, engineVars, lifeVars, dictVars>>

\* self._linebuf = ''
ThreadClearLine(t) ==
    /\ At(t, "clear_line")
    /\ linebuf' = ResetLine(linebuf)
    /\ Goto(t, NextStep(callers[t].kind, "clear_line"))
    /\ UNCHANGED <<chunkVars, gd, obs, lifeVars, dictVars, prompts, device, promptbuf, cb, pc, cur, idx, elapsed, prompt,
                   result, outcome, trace, handled, fline, fprompt, seen, quiet, residue>>

\* self._promptbuf = ''
ThreadClearPrompt(t) ==
    /\ At(t, "clear_prompt")
    /\ promptbuf' = ResetPrompt(promptbuf)
    /\ Goto(t, NextStep(callers[t].kind, "clear_prompt"))
    /\ UNCHANGED <<chunkVars, gd, obs, lifeVars, dictVars, prompts, device, linebuf, cb, pc, cur, idx, elapsed, prompt,
                   result, outcome, trace, handled, fline, fprompt, seen, quiet, residue>>

\* self._logger_client.send(cmd_line)
ThreadSend(t) ==
    /\ At(t, "send")
    /\ IF NextStep(callers[t].kind, "send") = "return"
       THEN Goto(t, "idle")
       ELSE Goto(t, NextStep(callers[t].kind, "send"))
    /\ UNCHANGED <<chunkVars, engineVars, lifeVars, dictVars>>

\* _get_response: the pass over the prompt list; the call then returns
\* through the response handler, or raises the timeout
ThreadGetResponse(t) ==
    /\ At(t, "get_response")
    /\ Goto(t, "idle")
    /\ UNCHANGED <<chunkVars, engineVars, lifeVars, dictVars>>

\* _got_data
ThreadArrival ==
    \E data \in Chunks :
        /\ Len(linebuf) + Len(data) <= MaxBuf
        /\ Len(promptbuf) + Len(data) <= MaxBuf
        /\ linebuf' = linebuf \o data
        /\ promptbuf' = promptbuf \o data
        /\ UNCHANGED <<chunkVars, gd, obs, lifeVars, dictVars, callers, prompts, device, cb, pc, cur, idx, elapsed, prompt,
                       result, outcome, trace, handled, fline, fprompt, seen, quiet, residue>>

SharedInit == Init /\ prompts = <<P1>>

SharedNext ==
    \/ \E t \in Threads : ThreadCall(t)
    \/ \E t \in Threads : ThreadWakeupStart(t)
    \/ \E t \in Threads : ThreadWakeupCheck(t)
    \/ \E t \in Threads : ThreadClearLine(t)
    \/ \E t \in Threads : ThreadClearPrompt(t)
    \/ \E t \in Threads : ThreadSend(t)
    \/ \E t \in Threads : ThreadGetResponse(t)
    \/ ThreadArrival

SharedSpec == SharedInit /\ [][SharedNext]_vars

(***************************************************************************)
(* C11: the engine enforces a single in-flight transaction.  In no         *)
(* reachable state are two command cycles of one engine in progress, so    *)
(* that no cycle is in its wakeup, buffer reset or send while another      *)
(* waits for its response.                                                 *)
(***************************************************************************)
C11_SingleInFlight ==
    /\ Cardinality({t \in Threads : callers[t].pc # "idle"}) <= 1
    /\ \A t, u \in Threads :
          (t # u /\ callers[u].pc = "get_response") =>
              callers[t].pc \notin {"wakeup", "wakeup_check", "clear_line",
                                    "clear_prompt", "send"}

(***************************************************************************)
(* The PPSDN protocol's _got_chunk                                         *)
(* (src/mi/instrument/mclane/ras/ppsdn/driver.py), statement by statement. *)
(* The base class calls it on the arrival thread with each chunk, after it *)
(* has appended the bytes to both buffers; the protocol state machine is   *)
(* driven from another thread, so the state may change between any two     *)
(* statements.  The particle's pattern and _extract_sample are not part of *)
(* the sources at hand: a chunk is a pump status line or it is not, and    *)
(* _extract_sample returns None for a chunk the pattern does not match     *)
(* and else the parsed sample, which it publishes first when publish is    *)
(* true.                                                                   *)
(***************************************************************************)
\* the chunks: a pump status line, and a line that is none
ChunkTexts == {<<"S">>, <<"-">>}

\* PPSDNSampleDataParticle.regex_compiled().match(chunk)
RegexMatches(chunk) == chunk = <<"S">>

\* self._extract_sample(PPSDNSampleDataParticle, regex, chunk, timestamp, publish)
extract_sample(chunk, publish) ==
    IF RegexMatches(chunk)
    THEN [sample_dict |-> <<"sample">> \o chunk, published |-> publish]
    ELSE [sample_dict |-> None, published |-> FALSE]

\* mutant: a sample is published in every state in which the pump runs
FillingAnyPump(state) == state \in {"FLUSH", "FILL", "CLEAR"}

\* filling = self.get_current_state() == ProtocolState.FILL
Filling(state) == state = "FILL"

\* the base class appends the arrived bytes to both buffers
AddToBuffer ==
    \E data \in ChunkTexts :
        /\ gc.at = "idle"
        /\ Len(linebuf) + Len(data) <= MaxBuf
        /\ Len(promptbuf) + Len(data) <= MaxBuf
        /\ linebuf' = linebuf \o data
        /\ promptbuf' = promptbuf \o data
        /\ UNCHANGED <<chunkVars, lifeVars, dictVars, callers, prompts, cb, gd, obs, device, pc, cur, idx, elapsed,
                       prompt, result, outcome, trace, handled, fline, fprompt, seen, quiet, residue>>

\* the protocol state machine makes a transition, on the caller's thread
StateChange ==
    \E state \in ProtocolStates :
        /\ state # current_state
        /\ current_state' = state
        /\ UNCHANGED <<gc, engineVars, lifeVars, dictVars, callers>>

\* _got_chunk is called: filling = self.get_current_state() == ProtocolState.FILL
GotChunkStart ==
    \E chunk \in ChunkTexts :
        /\ gc.at = "idle"
        /\ gc' = [at |-> "extract", chunk |-> chunk, filling |-> Filling(current_state),
                  sample_dict |-> None, arrived |-> current_state, line |-> linebuf,
                  prompt |-> promptbuf, did |-> <<>>]
        /\ UNCHANGED <<current_state, engineVars, lifeVars, dictVars, callers>>

\* sample_dict = self._extract_sample(..., chunk, timestamp, publish=filling);
\* if sample_dict: ..., and the return when it is not
ExtractSample ==
    /\ gc.at = "extract"
    /\ LET r == extract_sample(gc.chunk, gc.filling)
       IN  gc' = [gc EXCEPT !.sample_dict = r.sample_dict,
                            !.did = IF r.published THEN <<"publish">> ELSE <<>>,
                            !.at = IF r.sample_dict # None THEN "clear_line" ELSE "idle"]
    /\ UNCHANGED <<current_state, engineVars, lifeVars, dictVars, callers>>

\* self._linebuf = ''
GotChunkClearLine ==
    /\ gc.at = "clear_line"
    /\ linebuf' = <<>>
    /\ gc' = [gc EXCEPT !.did = Append(gc.did, "clear_line"), !.at = "clear_prompt"]
    /\ UNCHANGED <<current_state, lifeVars, dictVars, callers, prompts, promptbuf, cb, gd, obs, device, pc, cur, idx,
                   elapsed, prompt, result, outcome, trace, handled, fline, fprompt, seen, quiet, residue>>

\* self._promptbuf = ''
GotChunkClearPrompt ==
    /\ gc.at = "clear_prompt"
    /\ promptbuf' = <<>>
    /\ gc' = [gc EXCEPT !.did = Append(gc.did, "clear_prompt"), !.at = "on_event"]
    /\ UNCHANGED <<current_state, lifeVars, dictVars, callers, prompts, linebuf, cb, gd, obs, device, pc, cur, idx,
                   elapsed, prompt, result, outcome, trace, handled, fline, fprompt, seen, quiet, residue>>

\* self._protocol_fsm.on_event(ProtocolEvent.PUMP_STATUS, regex.search(chunk)): the
\* handler of the state the machine is in, whatever it is, may move the machine
PumpStatus ==
    \E state \in ProtocolStates :
        /\ gc.at = "on_event"
        /\ current_state' = state
        /\ gc' = [gc EXCEPT !.did = Append(gc.did, "PUMP_STATUS"), !.at = "idle"]
        /\ UNCHANGED <<engineVars, lifeVars, dictVars, callers>>

ChunkInit ==
    /\ EngineInit
    /\ prompts = <<P1>>
    /\ rt = RoundTrip(PyValue("NoneType", 0))
    /\ obs = Watching(FALSE)
    /\ device = AnyDevice
    /\ current_state \in ProtocolStates

ChunkNext ==
    \/ AddToBuffer
    \/ StateChange
    \/ GotChunkStart
    \/ ExtractSample
    \/ GotChunkClearLine
    \/ GotChunkClearPrompt
    \/ PumpStatus

ChunkSpec == ChunkInit /\ [][ChunkNext]_vars

\* the last call of _got_chunk has returned
GotChunkReturned == gc.at = "idle" /\ gc.chunk # <<>>

(***************************************************************************)
(* C32: in the PPSDN driver's _got_chunk the two buffers are cleared and a *)
(* PUMP_STATUS event is raised on the protocol state machine if and only   *)
(* if a sample particle was extracted from the chunk: a call that has      *)
(* returned did the two resets and then the event when the pattern matched *)
(* its chunk, and else did nothing; the resets leave the buffer empty; a   *)
(* call whose chunk yields no sample returns with both buffers as it found *)
(* them.  The sample is published only when the protocol state at the      *)
(* arrival of the chunk was FILL, and then it is.                          *)
(***************************************************************************)
C32_ClearAndEventIffSample ==
    /\ [](GotChunkReturned =>
            /\ RegexMatches(gc.chunk) =>
                  /\ gc.did \in {<<"clear_line", "clear_prompt", "PUMP_STATUS">>,
                                 <<"publish", "clear_line", "clear_prompt", "PUMP_STATUS">>}
                  /\ gc.sample_dict # None
            /\ ~RegexMatches(gc.chunk) => gc.did = <<>>)
    /\ []("publish" \in Range(gc.did) <=> (RegexMatches(gc.chunk) /\ gc.arrived = "FILL"
                                           /\ gc.at # "extract"))
    /\ [][(gc.at = "clear_line" /\ gc'.at = "clear_prompt") => linebuf' = <<>>]_vars
    /\ [][(gc.at = "clear_prompt" /\ gc'.at = "on_event") =>
              (linebuf' = <<>> /\ promptbuf' = <<>>)]_vars
    /\ [][(gc.at = "on_event" /\ gc'.at = "idle") =>
              (linebuf' = <<>> /\ promptbuf' = <<>>)]_vars
    /\ [][(gc.at = "extract" /\ gc'.at = "idle") =>
              (/\ ~RegexMatches(gc.chunk)
               /\ linebuf' = gc.line
               /\ promptbuf' = gc.prompt)]_vars

\* a pump status line arrived in FILL with bytes in both buffers, its sample was
\* published, and the call has returned
C32_Witness ==
    /\ GotChunkReturned
    /\ RegexMatches(gc.chunk)
    /\ gc.arrived = "FILL"
    /\ gc.line # <<>>
    /\ gc.prompt # <<>>
    /\ "publish" \in Range(gc.did)
    /\ "PUMP_STATUS" \in Range(gc.did)
    /\ linebuf = <<>>
    /\ promptbuf = <<>>

====
